---- MODULE Spec2Model ----
(***************************************************************************)
(* Model of the video-tutorial client: the App component (job lifecycle,   *)
(* polling effect, plan save / execute / regenerate handlers) of           *)
(* frontend/src/App.tsx and the TutorialLibrary component of               *)
(* frontend/src/components/TutorialLibrary.tsx.                            *)
(*                                                                         *)
(* Every action is one JavaScript callback run to completion: a user       *)
(* event handler up to its first await, the continuation of a handler      *)
(* after its request settled, or one firing of the poll interval.  The     *)
(* state updates of a callback are committed together and the polling      *)
(* effect of App is re-run as part of the same action when its             *)
(* dependencies [jobId, jobStatus?.status] changed.                        *)
(*                                                                         *)
(* The server is an external collaborator: a request in flight may         *)
(* succeed or fail at any later time, in any order, and a status read      *)
(* returns any JobStatus payload the data model allows for that job id.    *)
(***************************************************************************)
EXTENDS Bags, FiniteSets, Integers, Sequences, TLC

VARIABLES
    jobId,          \* App.tsx:14  useState<string | null>: NoJob or a job id
    jobStatus,      \* App.tsx:15  useState<JobStatus | null>: NullStatus or a record
    isLoading,      \* App.tsx:16
    error,          \* App.tsx:17  Null or an error text
    showLibrary,    \* App.tsx:18
    pollingRef,     \* App.tsx:20  useRef: NoTimer or the handle of the last setInterval
    timers,         \* the browser's interval table: handle -> job id of the closure, NoJob when cleared
    effectDeps,     \* dependencies of the last run of the polling effect (App.tsx:47)
    hasCleanup,     \* whether the last run of the effect returned a cleanup (App.tsx:41-45)
    requests,       \* bag of App's HTTP requests in flight
    jobsCreated,    \* number of job ids the server has handed out
    settled,        \* history: the job whose local status reached the terminal set, until execute/regenerate is called
    last,           \* history: the callback that ran last
    tutorials,      \* TutorialLibrary.tsx:24  sequence of tutorial ids
    loading,        \* TutorialLibrary.tsx:25
    libError,       \* TutorialLibrary.tsx:26
    expandedId,     \* TutorialLibrary.tsx:27
    playingId,      \* TutorialLibrary.tsx:28
    libRequests     \* bag of TutorialLibrary's HTTP requests in flight

appVars == <<jobId, jobStatus, isLoading, error, showLibrary, pollingRef, timers,
             effectDeps, hasCleanup, requests, jobsCreated, settled>>
libVars == <<tutorials, loading, libError, expandedId, playingId, libRequests>>
vars == <<appVars, libVars, last>>

----------------------------------------------------------------------------
(* Bounds                                                                  *)

MaxJobs == 2        \* job ids the server hands out in one run
MaxInFlight == 2    \* requests of App in flight at once
MaxLibRequests == 2 \* requests of TutorialLibrary in flight at once

----------------------------------------------------------------------------
(* Values                                                                  *)

Null == "null"
NoJob == 0
NoPlan == Null
NoTimer == 0
NoTutorial == 0
TimerSlots == 3     \* interval handles the browser has handed out and not yet cleared

Jobs == 1..MaxJobs
Plans == {"planA", "planB"}
Handles == 1..TimerSlots

Statuses == {"pending", "generating_plan", "plan_ready", "recording", "completed", "failed"}
Terminal == {"completed", "failed", "plan_ready"}

VideoUrl == "/media/video.mp4"
VideoFile == "video.mp4"
ServerMessage == "server message"
ServerError == "server error"

NullStatus ==
    [id |-> NoJob, status |-> Null, message |-> Null, task_plan |-> NoPlan,
     video_url |-> Null, video_filename |-> Null]

PendingStatus(id) ==
    [id |-> id, status |-> "pending", message |-> "Generating plan", task_plan |-> NoPlan,
     video_url |-> Null, video_filename |-> Null]

(* The payloads GET /status/{j} may return: the plan is absent until the   *)
(* server produced one, the video fields are set only on completed.        *)
ServerStatus(j) ==
    { [id |-> j, status |-> s, message |-> ServerMessage, task_plan |-> p,
       video_url |-> v[1], video_filename |-> v[2]] :
        s \in Statuses, p \in {NoPlan} \cup Plans,
        v \in {<<Null, Null>>, <<VideoUrl, VideoFile>>} }

StatusPayloads(j) ==
    { d \in ServerStatus(j) :
        /\ d.status \in {"pending", "generating_plan"} => d.task_plan = NoPlan
        /\ d.status \in {"plan_ready", "recording", "completed"} => d.task_plan # NoPlan
        /\ d.video_url # Null <=> d.status = "completed" }

Req(kind, job, plan) == [kind |-> kind, job |-> job, plan |-> plan]

Send(r) == requests (+) SetToBag({r})
Settle(r) == requests (-) SetToBag({r})

ErrorText(fallback) == {ServerError, fallback}

(* History record of a callback: its name, the job id (or tutorial id) of  *)
(* the request it settles and, for an acknowledged execute / regenerate,   *)
(* the local status it found.  Callbacks of TutorialLibrary that only      *)
(* change what is shown are recorded as "view"; an answered list request   *)
(* also records the collection it returned, an answered status or save    *)
(* request the task plan it carried (field data).                          *)
Last(op, job) ==
    [op |-> op, job |-> job,
     from |-> IF op \in {"executeOk", "regenerateOk"} THEN jobStatus.status ELSE Null]

----------------------------------------------------------------------------
(* The polling effect, App.tsx:23-47                                       *)

ClearInterval(t, h) == IF h = NoTimer THEN t ELSE [t EXCEPT ![h] = NoJob]

SetInterval(t) ==
    IF \E h \in Handles : t[h] = NoJob
    THEN CHOOSE h \in Handles : t[h] = NoJob /\ \A g \in Handles : t[g] = NoJob => h <= g
    ELSE TimerSlots

(* Mutant of ShouldPoll: plan_ready is missing from the list.              *)
MutShouldPoll(jid, js) ==
    jid # NoJob /\ js # NullStatus /\ js.status \notin {"completed", "failed"}

ShouldPoll(jid, js) == jid # NoJob /\ js # NullStatus /\ js.status \notin Terminal

Deps(jid, js) == <<jid, js.status>>

(* Mutant of EffectCleanup: the effect returns no cleanup.                  *)
MutEffectCleanup(t, h, cleanup) == t

(* Cleanup of the previous run (App.tsx:41-45), when it returned one.      *)
EffectCleanup(t, h, cleanup) == IF cleanup THEN ClearInterval(t, h) ELSE t

(* Commit of a callback's state updates followed by the effect: t and h    *)
(* are the interval table and pollingRef as the callback left them.        *)
PollingEffect(t, h, jid, js) ==
    IF Deps(jid, js) = effectDeps
    THEN /\ timers' = t
         /\ pollingRef' = h
         /\ UNCHANGED <<effectDeps, hasCleanup>>
    ELSE LET t1 == EffectCleanup(t, h, hasCleanup)
             n == SetInterval(t1)
         IN /\ effectDeps' = Deps(jid, js)
            /\ IF ShouldPoll(jid, js)
               THEN /\ timers' = [t1 EXCEPT ![n] = jid]
                    /\ pollingRef' = n
                    /\ hasCleanup' = TRUE
               ELSE /\ timers' = t1
                    /\ pollingRef' = h
                    /\ hasCleanup' = FALSE

ActiveTimers == { h \in Handles : timers[h] # NoJob }

----------------------------------------------------------------------------
(* What App renders, App.tsx:142-225                                       *)

FormRendered == jobId = NoJob                                   \* :156
ResetRendered == jobId # NoJob                                  \* :147
PlanEditorRendered ==                                           \* :180
    jobStatus.task_plan # NoPlan /\ jobStatus.status # "completed"
VideoPlayerRendered ==                                          \* :190
    jobStatus.status = "completed" /\ jobStatus.video_url # Null
CompletedEditorRendered ==                                      \* :201
    VideoPlayerRendered /\ jobStatus.task_plan # NoPlan

----------------------------------------------------------------------------
(* App: handlers                                                           *)

(* handleSubmitInstruction up to the await, App.tsx:49-59.  The form is    *)
(* rendered only without a job id and its submit button is disabled while  *)
(* isLoading (VideoRequestForm.tsx:59).                                    *)
handleSubmitInstruction ==
    /\ FormRendered /\ ~isLoading
    /\ BagCardinality(requests) < MaxInFlight
    /\ isLoading' = TRUE
    /\ error' = Null
    /\ jobStatus' = NullStatus
    /\ jobId' = NoJob
    /\ showLibrary' = FALSE
    /\ requests' = Send(Req("generate-plan", NoJob, NoPlan))
    /\ PollingEffect(timers, pollingRef, NoJob, NullStatus)
    /\ last' = Last("submit", NoJob)
    /\ UNCHANGED <<jobsCreated, settled, libVars>>

(* POST /generate-plan answered, App.tsx:61-73.                            *)
GeneratePlanOk ==
    /\ BagIn(Req("generate-plan", NoJob, NoPlan), requests)
    /\ jobsCreated < MaxJobs
    /\ LET id == jobsCreated + 1
       IN /\ jobsCreated' = id
          /\ jobId' = id
          /\ jobStatus' = PendingStatus(id)
          /\ PollingEffect(timers, pollingRef, id, PendingStatus(id))
          /\ last' = Last("generatePlanOk", id)
    /\ requests' = Settle(Req("generate-plan", NoJob, NoPlan))
    /\ UNCHANGED <<isLoading, error, showLibrary, settled, libVars>>

(* POST /generate-plan failed, App.tsx:74-77.                              *)
GeneratePlanFail ==
    /\ BagIn(Req("generate-plan", NoJob, NoPlan), requests)
    /\ requests' = Settle(Req("generate-plan", NoJob, NoPlan))
    /\ \E e \in ErrorText("Error generating plan") : error' = e
    /\ isLoading' = FALSE
    /\ last' = Last("generatePlanFail", NoJob)
    /\ UNCHANGED <<jobId, jobStatus, showLibrary, pollingRef, timers, effectDeps,
                   hasCleanup, jobsCreated, settled, libVars>>

(* One firing of the interval callback up to its await, App.tsx:25-27: the *)
(* request carries the jobId of the closure that armed the timer.          *)
Tick ==
    \E h \in Handles :
        /\ timers[h] # NoJob
        /\ BagCardinality(requests) < MaxInFlight
        /\ requests' = Send(Req("status", timers[h], NoPlan))
        /\ last' = Last("tick", timers[h])
        /\ UNCHANGED <<jobId, jobStatus, isLoading, error, showLibrary, pollingRef, timers,
                       effectDeps, hasCleanup, jobsCreated, settled, libVars>>

(* GET /status/{j} answered, App.tsx:28-35.                                *)
StatusOk ==
    \E j \in Jobs : \E data \in StatusPayloads(j) :
        /\ BagIn(Req("status", j, NoPlan), requests)
        /\ requests' = Settle(Req("status", j, NoPlan))
        /\ jobStatus' = data
        /\ isLoading' = IF data.status \in Terminal THEN FALSE ELSE isLoading
        /\ PollingEffect(IF data.status \in Terminal
                         THEN ClearInterval(timers, pollingRef) ELSE timers,
                         pollingRef, jobId, data)
        /\ settled' = IF jobId # NoJob /\ data.status \in Terminal THEN jobId ELSE settled
        /\ last' = [op |-> "statusOk", job |-> j, from |-> Null, data |-> data.task_plan]
        /\ UNCHANGED <<jobId, error, showLibrary, jobsCreated, libVars>>

(* Mutant of StatusFail: a failed status read stops the loop and reports.  *)
MutStatusFail ==
    \E j \in Jobs :
        /\ BagIn(Req("status", j, NoPlan), requests)
        /\ requests' = Settle(Req("status", j, NoPlan))
        /\ timers' = ClearInterval(timers, pollingRef)
        /\ error' = "Polling error"
        /\ last' = Last("statusFail", j)
        /\ UNCHANGED <<jobId, jobStatus, isLoading, showLibrary, pollingRef,
                       effectDeps, hasCleanup, jobsCreated, settled, libVars>>

(* GET /status/{j} failed, App.tsx:36-38: logged only.                     *)
StatusFail ==
    \E j \in Jobs :
        /\ BagIn(Req("status", j, NoPlan), requests)
        /\ requests' = Settle(Req("status", j, NoPlan))
        /\ last' = Last("statusFail", j)
        /\ UNCHANGED <<jobId, jobStatus, isLoading, error, showLibrary, pollingRef, timers,
                       effectDeps, hasCleanup, jobsCreated, settled, libVars>>

(* handleSaveTaskPlan up to the await, App.tsx:80-84; onSave of either     *)
(* TaskPlanEditor.                                                         *)
handleSaveTaskPlan ==
    \E plan \in Plans :
        /\ PlanEditorRendered \/ CompletedEditorRendered
        /\ IF jobId = NoJob
           THEN /\ last' = Last("saveNoJob", NoJob)
                /\ UNCHANGED requests
           ELSE /\ BagCardinality(requests) < MaxInFlight
                /\ requests' = Send(Req("task-plan", jobId, plan))
                /\ last' = Last("save", jobId)
        /\ UNCHANGED <<jobId, jobStatus, isLoading, error, showLibrary, pollingRef, timers,
                       effectDeps, hasCleanup, jobsCreated, settled, libVars>>

(* Mutant of WithPlan: the save also moves the job back to plan_ready.      *)
MutWithPlan(prev, plan) ==
    IF prev # NullStatus
    THEN [prev EXCEPT !.task_plan = plan, !.status = "plan_ready"]
    ELSE NullStatus

(* Mutant of WithPlan: a plan already held locally is kept.                *)
MutWithPlanMerge(prev, plan) ==
    IF prev # NullStatus
    THEN [prev EXCEPT !.task_plan = IF @ # NoPlan THEN @ ELSE plan]
    ELSE NullStatus

(* setJobStatus(prev => prev ? {...prev, task_plan: plan} : null), :85     *)
WithPlan(prev, plan) ==
    IF prev # NullStatus THEN [prev EXCEPT !.task_plan = plan] ELSE NullStatus

(* PUT /task-plan/{j} answered, App.tsx:85.                                *)
SaveOk ==
    \E r \in BagToSet(requests) :
        /\ r.kind = "task-plan"
        /\ requests' = Settle(r)
        /\ jobStatus' = WithPlan(jobStatus, r.plan)
        /\ PollingEffect(timers, pollingRef, jobId, WithPlan(jobStatus, r.plan))
        /\ last' = [op |-> "saveOk", job |-> r.job, from |-> Null, data |-> r.plan]
        /\ UNCHANGED <<jobId, isLoading, error, showLibrary, jobsCreated, settled, libVars>>

(* Mutant of SaveFail: the plan was merged optimistically and is kept.     *)
MutSaveFail ==
    \E r \in BagToSet(requests) :
        /\ r.kind = "task-plan"
        /\ requests' = Settle(r)
        /\ \E e \in ErrorText("Error saving plan") : error' = e
        /\ jobStatus' = WithPlan(jobStatus, r.plan)
        /\ last' = Last("saveFail", r.job)
        /\ UNCHANGED <<jobId, isLoading, showLibrary, pollingRef, timers,
                       effectDeps, hasCleanup, jobsCreated, settled, libVars>>

(* PUT /task-plan/{j} failed, App.tsx:86-88.                               *)
SaveFail ==
    \E r \in BagToSet(requests) :
        /\ r.kind = "task-plan"
        /\ requests' = Settle(r)
        /\ \E e \in ErrorText("Error saving plan") : error' = e
        /\ last' = Last("saveFail", r.job)
        /\ UNCHANGED <<jobId, jobStatus, isLoading, showLibrary, pollingRef, timers,
                       effectDeps, hasCleanup, jobsCreated, settled, libVars>>

(* handleExecute up to the await, App.tsx:91-98; onExecute of the plan     *)
(* editor shown while the job is not completed (:180-187).                 *)
handleExecute ==
    /\ PlanEditorRendered
    /\ IF jobId = NoJob
       THEN /\ last' = Last("executeNoJob", NoJob)
            /\ UNCHANGED <<isLoading, error, requests, settled>>
       ELSE /\ BagCardinality(requests) < MaxInFlight
            /\ isLoading' = TRUE
            /\ error' = Null
            /\ requests' = Send(Req("execute", jobId, NoPlan))
            /\ settled' = IF settled = jobId THEN NoJob ELSE settled
            /\ last' = Last("execute", jobId)
    /\ UNCHANGED <<jobId, jobStatus, showLibrary, pollingRef, timers,
                   effectDeps, hasCleanup, jobsCreated, libVars>>

(* Mutant of Executing: only the message is updated.                       *)
MutExecuting(prev) ==
    IF prev # NullStatus
    THEN [prev EXCEPT !.message = "Starting recording"]
    ELSE NullStatus

(* setJobStatus(prev => prev ? {...prev, status, message} : null), :99-103 *)
Executing(prev) ==
    IF prev # NullStatus
    THEN [prev EXCEPT !.status = "recording", !.message = "Starting recording"]
    ELSE NullStatus

(* POST /execute/{j} answered, App.tsx:99-103.                             *)
ExecuteOk ==
    \E r \in BagToSet(requests) :
        /\ r.kind = "execute"
        /\ requests' = Settle(r)
        /\ jobStatus' = Executing(jobStatus)
        /\ PollingEffect(timers, pollingRef, jobId, Executing(jobStatus))
        /\ last' = Last("executeOk", r.job)
        /\ UNCHANGED <<jobId, isLoading, error, showLibrary, jobsCreated, settled, libVars>>

(* Mutant of ExecuteFail: the loading flag is left set.                    *)
MutExecuteFail ==
    \E r \in BagToSet(requests) :
        /\ r.kind = "execute"
        /\ requests' = Settle(r)
        /\ \E e \in ErrorText("Error executing") : error' = e
        /\ last' = Last("executeFail", r.job)
        /\ UNCHANGED <<jobId, jobStatus, isLoading, showLibrary, pollingRef, timers,
                       effectDeps, hasCleanup, jobsCreated, settled, libVars>>

(* POST /execute/{j} failed, App.tsx:104-107.                              *)
ExecuteFail ==
    \E r \in BagToSet(requests) :
        /\ r.kind = "execute"
        /\ requests' = Settle(r)
        /\ \E e \in ErrorText("Error executing") : error' = e
        /\ isLoading' = FALSE
        /\ last' = Last("executeFail", r.job)
        /\ UNCHANGED <<jobId, jobStatus, showLibrary, pollingRef, timers,
                       effectDeps, hasCleanup, jobsCreated, settled, libVars>>

(* handleRegenerate up to the await, App.tsx:110-117; onRegenerate of the  *)
(* video player and onExecute of the editor below it (:190-208).           *)
handleRegenerate ==
    /\ VideoPlayerRendered
    /\ IF jobId = NoJob
       THEN /\ last' = Last("regenerateNoJob", NoJob)
            /\ UNCHANGED <<isLoading, error, requests, settled>>
       ELSE /\ BagCardinality(requests) < MaxInFlight
            /\ isLoading' = TRUE
            /\ error' = Null
            /\ requests' = Send(Req("regenerate", jobId, NoPlan))
            /\ settled' = IF settled = jobId THEN NoJob ELSE settled
            /\ last' = Last("regenerate", jobId)
    /\ UNCHANGED <<jobId, jobStatus, showLibrary, pollingRef, timers,
                   effectDeps, hasCleanup, jobsCreated, libVars>>

(* setJobStatus(prev => prev ? {...prev, status, message, video_url: null, *)
(* video_filename: null} : null), :118-124                                 *)
Regenerating(prev) ==
    IF prev # NullStatus
    THEN [prev EXCEPT !.status = "recording", !.message = "Regenerating video",
                      !.video_url = Null, !.video_filename = Null]
    ELSE NullStatus

(* POST /regenerate/{j} answered, App.tsx:118-124.                         *)
RegenerateOk ==
    \E r \in BagToSet(requests) :
        /\ r.kind = "regenerate"
        /\ requests' = Settle(r)
        /\ jobStatus' = Regenerating(jobStatus)
        /\ PollingEffect(timers, pollingRef, jobId, Regenerating(jobStatus))
        /\ last' = Last("regenerateOk", r.job)
        /\ UNCHANGED <<jobId, isLoading, error, showLibrary, jobsCreated, settled, libVars>>

(* POST /regenerate/{j} failed, App.tsx:125-128.                           *)
RegenerateFail ==
    \E r \in BagToSet(requests) :
        /\ r.kind = "regenerate"
        /\ requests' = Settle(r)
        /\ \E e \in ErrorText("Error regenerating") : error' = e
        /\ isLoading' = FALSE
        /\ last' = Last("regenerateFail", r.job)
        /\ UNCHANGED <<jobId, jobStatus, showLibrary, pollingRef, timers,
                       effectDeps, hasCleanup, jobsCreated, settled, libVars>>

(* resetAll, App.tsx:131-140; the button is rendered only with a job id.   *)
resetAll ==
    /\ ResetRendered
    /\ jobId' = NoJob
    /\ jobStatus' = NullStatus
    /\ error' = Null
    /\ isLoading' = FALSE
    /\ showLibrary' = TRUE
    /\ PollingEffect(ClearInterval(timers, pollingRef), pollingRef, NoJob, NullStatus)
    /\ last' = Last("reset", jobId)
    /\ UNCHANGED <<requests, jobsCreated, settled, libVars>>

----------------------------------------------------------------------------
(* TutorialLibrary                                                         *)

(* Three tutorials: a removal then leaves two entries whose order shows.   *)
TutorialIds == {1, 2, 3}

RECURSIVE Filter(_, _)
(* tutorials.filter(t => t.id !== id), TutorialLibrary.tsx:56              *)
Filter(list, id) ==
    IF list = <<>> THEN <<>>
    ELSE IF Head(list) = id THEN Filter(Tail(list), id)
         ELSE <<Head(list)>> \o Filter(Tail(list), id)

Ids(list) == { list[i] : i \in 1..Len(list) }

RECURSIVE Listings(_)
(* The collections GET /api/tutorials may return: any of the tutorials     *)
(* that still exist, newest (highest id) first.                            *)
Listings(S) ==
    IF S = {} THEN {<<>>}
    ELSE LET n == CHOOSE x \in S : \A y \in S : y <= x
         IN Listings(S \ {n}) \cup { <<n>> \o l : l \in Listings(S \ {n}) }

LibReq(kind, id) ==
    [kind |-> kind, id |-> id, tutorials |-> tutorials,
     expanded |-> expandedId = id, playing |-> playingId = id]

ListReq == [kind |-> "list", id |-> NoTutorial, tutorials |-> <<>>,
            expanded |-> FALSE, playing |-> FALSE]

(* The cards, with their buttons, are rendered only past the loading,      *)
(* error and empty returns, TutorialLibrary.tsx:89-127.                    *)
CardsRendered == ~loading /\ libError = Null /\ tutorials # <<>>
RetryRendered == ~loading /\ libError # Null

(* fetchTutorials up to the await, TutorialLibrary.tsx:34-37: Retry (:107) *)
(* or Refresh (:133).                                                      *)
fetchTutorials ==
    /\ RetryRendered \/ CardsRendered
    /\ BagCardinality(libRequests) < MaxLibRequests
    /\ loading' = TRUE
    /\ libRequests' = libRequests (+) SetToBag({ListReq})
    /\ last' = Last("fetch", NoTutorial)
    /\ UNCHANGED <<tutorials, libError, expandedId, playingId, appVars>>

(* GET /api/tutorials answered, TutorialLibrary.tsx:38-39, 42-44.          *)
ListOk ==
    \E list \in Listings(TutorialIds) :
        /\ BagIn(ListReq, libRequests)
        /\ libRequests' = libRequests (-) SetToBag({ListReq})
        /\ tutorials' = list
        /\ libError' = Null
        /\ loading' = FALSE
        /\ last' = [op |-> "listOk", job |-> NoTutorial, from |-> Null, data |-> list]
        /\ UNCHANGED <<expandedId, playingId, appVars>>

(* Mutant of ListFail: the failure also empties the collection.            *)
MutListFail ==
    /\ BagIn(ListReq, libRequests)
    /\ libRequests' = libRequests (-) SetToBag({ListReq})
    /\ \E e \in ErrorText("Failed to load tutorials") : libError' = e
    /\ tutorials' = <<>>
    /\ loading' = FALSE
    /\ last' = Last("listFail", NoTutorial)
    /\ UNCHANGED <<expandedId, playingId, appVars>>

(* GET /api/tutorials failed, TutorialLibrary.tsx:40-44.                   *)
ListFail ==
    /\ BagIn(ListReq, libRequests)
    /\ libRequests' = libRequests (-) SetToBag({ListReq})
    /\ \E e \in ErrorText("Failed to load tutorials") : libError' = e
    /\ loading' = FALSE
    /\ last' = Last("listFail", NoTutorial)
    /\ UNCHANGED <<tutorials, expandedId, playingId, appVars>>

(* handleDelete up to the await, TutorialLibrary.tsx:47-55.  The closure   *)
(* keeps the tutorials, expandedId and playingId of the render that was    *)
(* clicked; the request records tutorials and, as all the continuation     *)
(* reads of the other two, whether each equals id.  A declined             *)
(* window.confirm returns at :51.                                          *)
handleDelete ==
    \E id \in Ids(tutorials), confirmed \in BOOLEAN :
        /\ CardsRendered
        /\ IF confirmed
           THEN /\ BagCardinality(libRequests) < MaxLibRequests
                /\ libRequests' = libRequests (+) SetToBag({LibReq("delete", id)})
                /\ last' = Last("delete", NoTutorial)
           ELSE /\ UNCHANGED libRequests
                /\ last' = Last("view", NoTutorial)
        /\ UNCHANGED <<tutorials, loading, libError, expandedId, playingId, appVars>>

(* DELETE /api/tutorials/{id} answered, TutorialLibrary.tsx:56-58.         *)
DeleteOk ==
    \E r \in BagToSet(libRequests) :
        /\ r.kind = "delete"
        /\ libRequests' = libRequests (-) SetToBag({r})
        /\ tutorials' = Filter(r.tutorials, r.id)
        /\ expandedId' = IF r.expanded THEN NoTutorial ELSE expandedId
        /\ playingId' = IF r.playing THEN NoTutorial ELSE playingId
        /\ last' = Last("deleteOk", r.id)
        /\ UNCHANGED <<loading, libError, appVars>>

(* DELETE /api/tutorials/{id} failed, TutorialLibrary.tsx:59-61: an alert. *)
DeleteFail ==
    \E r \in BagToSet(libRequests) :
        /\ r.kind = "delete"
        /\ libRequests' = libRequests (-) SetToBag({r})
        /\ last' = Last("deleteFail", r.id)
        /\ UNCHANGED <<tutorials, loading, libError, expandedId, playingId, appVars>>

(* toggleExpand, TutorialLibrary.tsx:75-82.                                *)
toggleExpand ==
    \E id \in Ids(tutorials) :
        /\ CardsRendered
        /\ IF expandedId = id
           THEN expandedId' = NoTutorial /\ playingId' = NoTutorial
           ELSE expandedId' = id /\ UNCHANGED playingId
        /\ last' = Last("view", NoTutorial)
        /\ UNCHANGED <<tutorials, loading, libError, libRequests, appVars>>

(* togglePlay, TutorialLibrary.tsx:84-87.                                  *)
togglePlay ==
    \E id \in Ids(tutorials) :
        /\ CardsRendered
        /\ playingId' = IF playingId = id THEN NoTutorial ELSE id
        /\ last' = Last("view", NoTutorial)
        /\ UNCHANGED <<tutorials, loading, libError, expandedId, libRequests, appVars>>

NextLib ==
    \/ fetchTutorials
    \/ ListOk
    \/ ListFail
    \/ handleDelete
    \/ DeleteOk
    \/ DeleteFail
    \/ toggleExpand
    \/ togglePlay

----------------------------------------------------------------------------
(* Specifications: App with no job, TutorialLibrary just mounted with the  *)
(* fetchTutorials of its mount effect (TutorialLibrary.tsx:30-32) in       *)
(* flight.                                                                 *)

Init ==
    /\ jobId = NoJob
    /\ jobStatus = NullStatus
    /\ isLoading = FALSE
    /\ error = Null
    /\ showLibrary = TRUE
    /\ pollingRef = NoTimer
    /\ timers = [h \in Handles |-> NoJob]
    /\ effectDeps = Deps(NoJob, NullStatus)
    /\ hasCleanup = FALSE
    /\ requests = EmptyBag
    /\ jobsCreated = 0
    /\ settled = NoJob
    /\ last = [op |-> "mount", job |-> NoJob, from |-> Null]
    /\ tutorials = <<>>
    /\ loading = TRUE
    /\ libError = Null
    /\ expandedId = NoTutorial
    /\ playingId = NoTutorial
    /\ libRequests = SetToBag({ListReq})

Next ==
    \/ handleSubmitInstruction
    \/ GeneratePlanOk
    \/ GeneratePlanFail
    \/ Tick
    \/ StatusOk
    \/ StatusFail
    \/ handleSaveTaskPlan
    \/ SaveOk
    \/ SaveFail
    \/ handleExecute
    \/ ExecuteOk
    \/ ExecuteFail
    \/ handleRegenerate
    \/ RegenerateOk
    \/ RegenerateFail
    \/ resetAll

Spec == Init /\ [][Next]_vars

SpecLib == Init /\ [][NextLib]_vars

(* A status request of the current job is answered with a terminal status. *)
TerminalAnswer ==
    /\ StatusOk
    /\ last'.job = jobId
    /\ jobStatus'.status \in Terminal

(* App with the scheduling its liveness rests on: an armed interval keeps  *)
(* firing (App.tsx:25, 39), requests in flight are answered, and, as long  *)
(* as status requests of the current job keep being sent, one of them is   *)
(* eventually answered with a terminal status.                             *)
SpecLive ==
    /\ Init
    /\ [][Next]_vars
    /\ SF_vars(Tick)
    /\ WF_vars(GeneratePlanOk \/ GeneratePlanFail)
    /\ WF_vars(StatusOk \/ StatusFail)
    /\ WF_vars(SaveOk \/ SaveFail)
    /\ WF_vars(ExecuteOk \/ ExecuteFail)
    /\ WF_vars(RegenerateOk \/ RegenerateFail)
    /\ SF_vars(TerminalAnswer)

----------------------------------------------------------------------------
(* Claims                                                                  *)

PollsInFlight(j) == CopiesIn(Req("status", j, NoPlan), requests)

(* C1: at most one poll interval timer is active at any instant, and the   *)
(* job id its closure polls is the current jobId.                          *)
C1_OnePollTimerForCurrentJob ==
    /\ Cardinality(ActiveTimers) <= 1
    /\ \A h \in ActiveTimers : timers[h] = jobId

(* C1 witness: a second job is being polled while a status request of the  *)
(* first job is still in flight.                                           *)
C1_Witness ==
    /\ jobId = 2
    /\ ActiveTimers # {}
    /\ PollsInFlight(1) > 0

(* C2: the response of a status request whose job is no longer the current *)
(* job (reset, or a newer job started) does not change jobStatus.          *)
C2_StaleResponseIgnored ==
    [][(last'.op = "statusOk" /\ last'.job # jobId) => jobStatus' = jobStatus]_vars

(* C3: once the active job's local status reached the terminal set, no     *)
(* further status request is sent for that job until execute or regenerate *)
(* is called.                                                              *)
C3_NoPollAfterSettled ==
    [][settled # NoJob =>
        CopiesIn(Req("status", settled, NoPlan), requests') <= PollsInFlight(settled)]_vars

(* C4: an acknowledged execute or regenerate for the active job that found *)
(* it in a terminal status leaves the local status 'recording' and exactly *)
(* the poll timer of that job armed.                                       *)
C4_ExecuteRearmsPolling ==
    (/\ last.op \in {"executeOk", "regenerateOk"}
     /\ last.job = jobId
     /\ last.from \in Terminal)
    => /\ jobStatus.status = "recording"
       /\ ActiveTimers # {}
       /\ \A h \in ActiveTimers : timers[h] = jobId

(* C4 witness: execute acknowledged for the active job in plan_ready.      *)
C4_Witness ==
    /\ last.op = "executeOk"
    /\ last.job = jobId
    /\ last.from = "plan_ready"
    /\ jobStatus.message = "Starting recording"

(* C5: a successful delete(id) removes exactly that entry from the         *)
(* collection as it is when the response arrives, keeping the others and   *)
(* their order; a failed delete leaves the collection unchanged.           *)
C5_DeleteRemovesExactlyThatEntry ==
    [][/\ last'.op = "deleteOk" => tutorials' = Filter(tutorials, last'.job)
       /\ last'.op = "deleteFail" => tutorials' = tutorials]_vars

(* C6: a failed status fetch leaves the timer, the active job and the      *)
(* error slot unchanged.                                                   *)
C6_PollFailureIsSwallowed ==
    [][last'.op = "statusFail" =>
        UNCHANGED <<timers, pollingRef, jobId, jobStatus, error>>]_vars

(* C6 witness: a status fetch of the active job failed and its timer is    *)
(* still armed with no error shown.                                        *)
C6_Witness ==
    /\ last.op = "statusFail"
    /\ last.job = jobId
    /\ ActiveTimers # {}
    /\ error = Null

(* C7: after a failed plan-creation request an error is set and there is   *)
(* no active job: jobId and jobStatus are null and no timer is armed.      *)
C7_FailedStartLeavesNoJob ==
    last.op = "generatePlanFail" =>
        /\ error # Null
        /\ jobId = NoJob
        /\ jobStatus = NullStatus
        /\ ActiveTimers = {}

C9_SaveReplacesOnlyThePlan ==
    [][\A r \in BagToSet(requests) :
        (/\ r.kind = "task-plan"
         /\ last'.op = "saveOk"
         /\ requests' = Settle(r)
         /\ r.job = jobId
         /\ jobStatus # NullStatus)
        => /\ jobStatus' = [jobStatus EXCEPT !.task_plan = r.plan]
           /\ jobId' = jobId]_vars

(* C9 witness: a save was acknowledged for the active, completed job.      *)
C9_Witness ==
    /\ last.op = "saveOk"
    /\ last.job = jobId
    /\ jobStatus.status = "completed"
    /\ jobStatus.task_plan \in Plans

(* C10: a failed save leaves the job unchanged and sets the error; a save  *)
(* without a job id sends nothing and changes nothing.                     *)
C10_FailedSaveKeepsPlan ==
    [][/\ last'.op = "saveFail" => jobStatus' = jobStatus /\ jobId' = jobId /\ error' # Null
       /\ last'.op = "saveNoJob" => UNCHANGED appVars]_vars

(* C10 witness: a save failed for the active job, whose plan is shown.     *)
C10_Witness ==
    /\ last.op = "saveFail"
    /\ last.job = jobId
    /\ jobStatus.task_plan \in Plans
    /\ error \in ErrorText("Error saving plan")

(* C11: a successful list() makes the collection exactly the returned list *)
(* and clears the error; a failed list() keeps the collection and sets the *)
(* error; both end with loading false.                                     *)
C11_ListReplacesOrPreserves ==
    [][/\ last'.op = "listOk" =>
            tutorials' = last'.data /\ libError' = Null /\ loading' = FALSE
       /\ last'.op = "listFail" =>
            tutorials' = tutorials /\ libError' # Null /\ loading' = FALSE]_vars

(* C11 witness: a refresh failed and the collection loaded before is kept. *)
C11_Witness ==
    /\ last.op = "listFail"
    /\ tutorials # <<>>
    /\ libError # Null
    /\ ~loading

(* C12: after a successful delete neither expandedId nor playingId refers  *)
(* to the removed id.                                                      *)
C12_NoSelectionOfRemovedId ==
    last.op = "deleteOk" => expandedId # last.job /\ playingId # last.job

(* C13: a poll timer is active if and only if jobId and jobStatus are      *)
(* non-null and the local status is not completed, failed or plan_ready.   *)
C13_TimerIffJobInProgress ==
    (ActiveTimers # {}) <=>
        (/\ jobId # NoJob
         /\ jobStatus # NullStatus
         /\ jobStatus.status \notin {"completed", "failed", "plan_ready"})

(* C13 witness: a status response moved the active job to plan_ready and   *)
(* no timer is left.                                                       *)
C13_Witness ==
    /\ last.op = "statusOk"
    /\ last.job = jobId
    /\ jobStatus.status = "plan_ready"
    /\ ActiveTimers = {}

(* C14: at most one status request for the active job is in flight at any  *)
(* instant.                                                                *)
C14_AtMostOneStatusRequestInFlight ==
    jobId # NoJob => PollsInFlight(jobId) <= 1

(* C15: of a save response and a status response for the active job, the   *)
(* one that arrived last decides task_plan: the saved plan after the save, *)
(* the polled plan after the poll.                                         *)
C15_LastArrivalDecidesPlan ==
    /\ (last.op = "saveOk" /\ last.job = jobId /\ jobStatus # NullStatus)
            => jobStatus.task_plan = last.data
    /\ (last.op = "statusOk" /\ last.job = jobId)
            => jobStatus.task_plan = last.data

(* C15 witness: a save was acknowledged for the active job after a status  *)
(* response (the message is the server's) had been applied.                *)
C15_Witness ==
    /\ last.op = "saveOk"
    /\ last.job = jobId
    /\ jobStatus.id = jobId
    /\ jobStatus.message = ServerMessage
    /\ jobStatus.task_plan = last.data

(* C16: whenever a job is active, unless the user resets, the client       *)
(* eventually holds a terminal status of that job with no poll timer armed *)
(* and the loading flag false.                                             *)
C16_JobEventuallySettles ==
    \A j \in Jobs :
        (jobId = j) ~>
            \/ jobId # j
            \/ /\ jobStatus.id = j
               /\ jobStatus.status \in Terminal
               /\ ActiveTimers = {}
               /\ ~isLoading

(* C17: an acknowledged regenerate leaves video_url and video_filename     *)
(* null, and from then on they stay null until a status response of the    *)
(* regenerated job with status completed is applied.                       *)
C17_VideoNullWhileRegenerating ==
    [][/\ (last'.op = "regenerateOk" /\ jobStatus' # NullStatus) =>
              (jobStatus'.video_url = Null /\ jobStatus'.video_filename = Null)
       /\ (jobStatus.message = "Regenerating video" /\ jobStatus'.video_url # Null) =>
              (last'.op = "statusOk" /\ last'.job = jobId
                 /\ jobStatus'.status = "completed")]_vars

(* C18: jobStatus is non-null only when jobId is non-null, and then holds  *)
(* the state of that job: jobStatus.id equals jobId.                       *)
C18_StatusBelongsToCurrentJob ==
    jobStatus # NullStatus => (jobId # NoJob /\ jobStatus.id = jobId)

(* C19: an id whose delete the server confirmed and that was removed from  *)
(* the collection does not come back by anything but a list response; in   *)
(* particular the confirmation of another delete does not bring it back.   *)
C19_DeletedIdStaysDeleted ==
    [][(/\ last.op = "deleteOk"
        /\ last.job \notin Ids(tutorials)
        /\ last'.op # "listOk") => last.job \notin Ids(tutorials')]_vars

(* C20: while the client holds the state of its current job, the response  *)
(* of a save, execute or regenerate request issued for another, earlier    *)
(* job leaves jobStatus as it is.                                          *)
C20_LateActionResponseIgnored ==
    [][(/\ last'.op \in {"saveOk", "saveFail", "executeOk", "executeFail",
                         "regenerateOk", "regenerateFail"}
        /\ jobId # NoJob
        /\ jobStatus.id = jobId
        /\ last'.job # jobId) => jobStatus' = jobStatus]_vars

====
